---- MODULE Spec2Model ----
(***************************************************************************)
(* may.py: a script dispatcher.  A Python str is modelled as a sequence of *)
(* one-character strings, a list as a sequence.                                *)
(* A call that may raise returns a record [exc, val]: exc is "none" when   *)
(* the call returns val, and the name of the exception class otherwise.    *)
(***************************************************************************)
EXTENDS Integers, Sequences, FiniteSets, TLC

VARIABLES
    pc,           \* "start" before the call under study, "done" after it
    text,         \* multiple_lines: argument text
    line_length,  \* multiple_lines: argument line_length
    lines,        \* multiple_lines: returned list
    string,       \* extract_doc_title: argument string
    doc_title,    \* extract_doc_title: outcome [exc, val]
    base_path,    \* get_import_names: the os.listdir() listing, entries [item, isfile]
    script_names, \* get_import_names: returned list
    modules,      \* what __import__(name) does for each name of the universe
    names,        \* get_quick_doc: argument names
    data,         \* get_quick_doc: outcome [exc, val]
    res,          \* available_scripts: outcome [exc, val]
    argv,         \* main: sys.argv
    outcome       \* main: what the run did, a record of
                  \*   branch: branch taken ("none" before the call)
                  \*   stdout: the strings print() wrote, in order
                  \*   loaded: the names handed to __import__, in order
                  \*   calls:  the argument lists script main()s were called with
                  \*   raised: exception that left main(), "none" when it returned

wrapVars  == <<text, line_length, lines>>
titleVars == <<string, doc_title>>
enumVars  == <<base_path, script_names>>
docVars   == <<names, data>>
mainVars  == <<argv, outcome>>
vars == <<pc, wrapVars, titleVars, enumVars, modules, docVars, res, mainVars>>

----------------------------------------------------------------------------
(* Characters and Python str primitives *)

SP  == " "
NL  == "\n"
TAB == "\t"
\* None, kept comparable with a str: a sequence no str of characters equals.
None == <<"<None>">>

Ok(v)    == [exc |-> "none", val |-> v]
Raise(e) == [exc |-> e, val |-> <<>>]

\* All strings over alphabet A of length at most n.
Strings(A, n) == UNION {[1..k -> A] : k \in 0..n}

\* c repeated n times.
Rep(c, n) == [i \in 1..n |-> c]

\* s occurs in t at position i (1-based).
OccursAt(s, t, i) ==
    /\ i >= 1
    /\ i + Len(s) - 1 <= Len(t)
    /\ \A k \in 1..Len(s) : t[i + k - 1] = s[k]

\* str.split(sep) for a non-empty separator: every occurrence splits, empty
\* pieces are kept.
RECURSIVE split(_, _)
split(s, sep) ==
    LET hits == {i \in 1..Len(s) : OccursAt(sep, s, i)}
    IN  IF hits = {} THEN <<s>>
        ELSE LET i == CHOOSE j \in hits : \A k \in hits : j <= k
             IN  <<SubSeq(s, 1, i - 1)>> \o split(SubSeq(s, i + Len(sep), Len(s)), sep)

\* sep.join(parts)
RECURSIVE join(_, _)
join(sep, parts) ==
    IF Len(parts) = 0 THEN <<>>
    ELSE IF Len(parts) = 1 THEN parts[1]
    ELSE parts[1] \o sep \o join(sep, Tail(parts))

----------------------------------------------------------------------------
(* multiple_lines *)

\* The for loop of multiple_lines over words[k..], carrying lines and line;
\* returns the pair <<lines, line>> the loop ends with.
RECURSIVE wrap_loop(_, _, _, _, _)
wrap_loop(words, k, ls, line, width) ==
    IF k > Len(words) THEN <<ls, line>>
    ELSE LET word == words[k]
             candidate == IF line = <<>> THEN word ELSE line \o <<SP>> \o word
         IN  IF Len(candidate) < width
             THEN wrap_loop(words, k + 1, ls, candidate, width)
             ELSE wrap_loop(words, k + 1, Append(ls, line), word, width)

wrap_finish(end) ==
    LET l1 == IF Len(end[2]) > 0 THEN Append(end[1], end[2]) ELSE end[1]
    IN  IF Len(l1) = 0 THEN Append(l1, <<>>) ELSE l1

\* Plausible bug: the length test looks at the line built so far instead of
\* the candidate.
RECURSIVE wrap_loop_stale(_, _, _, _, _)
wrap_loop_stale(words, k, ls, line, width) ==
    IF k > Len(words) THEN <<ls, line>>
    ELSE LET word == words[k]
             candidate == IF line = <<>> THEN word ELSE line \o <<SP>> \o word
         IN  IF Len(line) < width
             THEN wrap_loop_stale(words, k + 1, ls, candidate, width)
             ELSE wrap_loop_stale(words, k + 1, Append(ls, line), word, width)

multiple_lines_stale(t, width) ==
    wrap_finish(wrap_loop_stale(split(t, <<SP>>), 1, <<>>, <<>>, width))

multiple_lines(t, width) ==
    wrap_finish(wrap_loop(split(t, <<SP>>), 1, <<>>, <<>>, width))

----------------------------------------------------------------------------
(* extract_doc_title *)

\* string.split("===")[0]
split_first(s, sep) == split(s, sep)[1]

extract_doc_title(s) ==
    LET head == split_first(s, <<"=", "=", "=">>)
    IN  IF Len(head) > 0
        THEN LET d1 == IF head[1] = NL THEN SubSeq(head, 2, Len(head)) ELSE head
             IN  IF Len(d1) = 0 THEN Raise("IndexError")     \* doc_title[-1] of ""
                 ELSE IF d1[Len(d1)] = NL THEN Ok(SubSeq(d1, 1, Len(d1) - 1))
                 ELSE Ok(d1)
        ELSE Ok(head)

----------------------------------------------------------------------------
(* get_import_names *)

MAY_BAT    == <<"m", "a", "y", ".", "b", "a", "t">>
MAY_PY     == <<"m", "a", "y", ".", "p", "y">>
PYCACHE    == <<"_", "_", "p", "y", "c", "a", "c", "h", "e", "_", "_">>
DOT_PY     == <<".", "p", "y">>

\* re.match("(.+)\.py", item): anchored at the start only, "(.+)" greedy and
\* not matching a newline.  Ok(group 1) on a match, Raise("nomatch") otherwise.
match_py(item) ==
    LET hits == {i \in 2..Len(item) :
                    /\ OccursAt(DOT_PY, item, i)
                    /\ \A k \in 1..(i - 1) : item[k] # NL}
    IN  IF hits = {} THEN Raise("nomatch")
        ELSE LET i == CHOOSE j \in hits : \A k \in hits : j >= k
             IN  Ok(SubSeq(item, 1, i - 1))

RECURSIVE import_names_loop(_, _)
import_names_loop(listing, k) ==
    IF k > Len(listing) THEN <<>>
    ELSE LET item == listing[k].item
             rest == import_names_loop(listing, k + 1)
         IN  IF item = MAY_BAT \/ item = MAY_PY \/ item = PYCACHE THEN rest
             ELSE IF listing[k].isfile
                  THEN LET m == match_py(item)
                       IN  IF m.exc = "none" THEN <<m.val>> \o rest ELSE rest
                  ELSE <<item>> \o rest

get_import_names(listing) == import_names_loop(listing, 1)

----------------------------------------------------------------------------
(* __import__ and get_quick_doc *)

\* What importing a name does: load is "ok" or the exception the import
\* raises; doc is the module's __doc__ (None or a str); main is what the
\* module's main(args) does: "returns", the exception it raises, or "absent".
Kind(load, doc, main) == [load |-> load, doc |-> doc, main |-> main]

\* __import__(name) against the table mods.  The empty name is refused by
\* Python itself with ValueError; a name nothing provides is not found.
import_(mods, name) ==
    IF name = <<>> THEN Kind("ValueError", None, "absent")
    ELSE IF name \in DOMAIN mods THEN mods[name]
    ELSE Kind("ModuleNotFoundError", None, "absent")

\* doc if doc else ""
doc_or_empty(doc) == IF doc = None THEN <<>> ELSE doc

\* The generator loop of get_quick_doc under @iterated: the descriptors
\* collected so far (val), the names handed to __import__ (imported), and the
\* exception that ended the loop (exc).
RECURSIVE quick_doc_loop(_, _, _, _)
quick_doc_loop(mods, ns, k, acc) ==
    IF k > Len(ns) THEN [exc |-> "none", val |-> acc.val, imported |-> acc.imported]
    ELSE LET name == ns[k]
             m    == import_(mods, name)
             imp  == Append(acc.imported, name)
         IN  IF m.load = "ModuleNotFoundError"
             THEN quick_doc_loop(mods, ns, k + 1, [val |-> acc.val, imported |-> imp])
             ELSE IF m.load # "ok"
             THEN [exc |-> m.load, val |-> <<>>, imported |-> imp]
             ELSE LET t == extract_doc_title(doc_or_empty(m.doc))
                  IN  IF t.exc # "none"
                      THEN [exc |-> t.exc, val |-> <<>>, imported |-> imp]
                      ELSE quick_doc_loop(mods, ns, k + 1,
                               [val |-> Append(acc.val, [name |-> name, title |-> t.val]),
                                imported |-> imp])

get_quick_doc(mods, ns) ==
    quick_doc_loop(mods, ns, 1, [val |-> <<>>, imported |-> <<>>])

----------------------------------------------------------------------------
(* longest_text, adjusted_legth_text, available_scripts, general_help *)

INLINE_DOC_CHARS == 70

RECURSIVE longest_loop(_, _, _)
longest_loop(text_list, k, max_length) ==
    IF k > Len(text_list) THEN max_length
    ELSE longest_loop(text_list, k + 1,
             IF Len(text_list[k]) > max_length THEN Len(text_list[k]) ELSE max_length)

longest_text(text_list) == longest_loop(text_list, 1, 0)

adjusted_legth_text(t, length) ==
    IF Len(t) < length THEN t \o Rep(SP, length - Len(t)) ELSE t

\* " {}\t{}\n".format(field, line)
format_row(field, line) == <<SP>> \o field \o <<TAB>> \o line \o <<NL>>

\* The inner loop of available_scripts: the rows of one descriptor.
RECURSIVE rows_of(_, _, _, _)
rows_of(name, segs, i, max_length) ==
    IF i > Len(segs) THEN <<>>
    ELSE format_row(adjusted_legth_text(IF i = 1 THEN name ELSE <<>>, max_length), segs[i])
         \o rows_of(name, segs, i + 1, max_length)

RECURSIVE listing_of(_, _, _)
listing_of(descs, k, max_length) ==
    IF k > Len(descs) THEN <<>>
    ELSE rows_of(descs[k].name, multiple_lines(descs[k].title, INLINE_DOC_CHARS), 1, max_length)
         \o listing_of(descs, k + 1, max_length)

\* available_scripts() with os.listdir() of the dispatcher's directory = listing
available_scripts(listing, mods) ==
    LET sn         == get_import_names(listing)
        max_length == longest_text(sn)
        d          == get_quick_doc(mods, sn)
    IN  IF d.exc # "none" THEN [exc |-> d.exc, val |-> <<>>, imported |-> d.imported]
        ELSE [exc |-> "none", val |-> listing_of(d.val, 1, max_length),
              imported |-> d.imported]

\* The static text of general_help's template before and after the "{}" slot,
\* each carried as a single element: no length of the help text is ever taken.
HELP_HEAD == <<"This tool is a generic script manager ... Below, a list of the available scripts:\n\n">>
HELP_TAIL == <<"\n\n">>

\* general_help's template filled with the outcome a of available_scripts().
fill_help(a) ==
    IF a.exc # "none" THEN a
    ELSE [exc |-> "none", val |-> HELP_HEAD \o a.val \o HELP_TAIL,
          imported |-> a.imported]

general_help(listing, mods) == fill_help(available_scripts(listing, mods))

----------------------------------------------------------------------------
(* main *)

PROG   == <<"may.py">>                      \* sys.argv[0], one element
MANUAL == <<"m", "a", "n", "u", "a", "l">>
ERROR_NOT_FOUND == <<"ERROR: Script not found">>   \* the literal, one element

\* Python's zero-based seq[i] and seq[i:]
At(seq, i)   == seq[i + 1]
From(seq, i) == SubSeq(seq, i + 1, Len(seq))

\* main's tests on sys.argv
no_extra_keyword(av) == Len(av) <= 1

\* Plausible bug: the test on the number of arguments accepts trailing ones.
asking_manual_with_extras(av) == At(av, 1) = MANUAL /\ Len(av) >= 3

asking_manual(av)    == At(av, 1) = MANUAL /\ Len(av) = 3

\* State after main() ran: what it printed, imported and called, and how it ended.
Outcome(b, out, imp, cl, exc) ==
    [branch |-> b, stdout |-> out, loaded |-> imp, calls |-> cl, raised |-> exc]

\* print(h) where h is the outcome of general_help()
print_help(h) ==
    IF h.exc # "none" THEN Outcome("help", <<>>, h.imported, <<>>, h.exc)
    ELSE Outcome("help", <<h.val>>, h.imported, <<>>, "none")

\* print(general_help())
help_branch(listing, mods) == print_help(general_help(listing, mods))

\* Plausible bug: manual mode without the except clause.
manual_branch_uncaught(av, mods) ==
    LET name == At(av, 2)
        m    == import_(mods, name)
    IN  IF m.load # "ok" THEN Outcome("manual", <<>>, <<name>>, <<>>, m.load)
        ELSE Outcome("manual", <<doc_or_empty(m.doc)>>, <<name>>, <<>>, "none")

\* try: doc = __import__(sys.argv[2]).__doc__; print(doc if doc else "")
\* except ModuleNotFoundError: print("ERROR: Script not found")
manual_branch(av, mods) ==
    LET name == At(av, 2)
        m    == import_(mods, name)
    IN  IF m.load = "ModuleNotFoundError"
        THEN Outcome("manual", <<ERROR_NOT_FOUND>>, <<name>>, <<>>, "none")
        ELSE IF m.load # "ok" THEN Outcome("manual", <<>>, <<name>>, <<>>, m.load)
        ELSE Outcome("manual", <<doc_or_empty(m.doc)>>, <<name>>, <<>>, "none")

\* try: ... __import__(name).main(args) / except ModuleNotFoundError: print(...)
\* The except clause guards the whole try body, the call of main included.
run_outcome(name, args, mods) ==
    LET m == import_(mods, name)
    IN  IF m.load = "ModuleNotFoundError"
        THEN Outcome("run", <<ERROR_NOT_FOUND>>, <<name>>, <<>>, "none")
        ELSE IF m.load # "ok" THEN Outcome("run", <<>>, <<name>>, <<>>, m.load)
        ELSE IF m.main = "absent" THEN Outcome("run", <<>>, <<name>>, <<>>, "AttributeError")
        ELSE IF m.main = "returns" THEN Outcome("run", <<>>, <<name>>, <<args>>, "none")
        ELSE IF m.main = "ModuleNotFoundError"
        THEN Outcome("run", <<ERROR_NOT_FOUND>>, <<name>>, <<args>>, "none")
        ELSE Outcome("run", <<>>, <<name>>, <<args>>, m.main)

\* Plausible bug: only the program identifier is removed from the arguments.
run_branch_keeps_name(av, mods) == run_outcome(At(av, 1), From(av, 1), mods)

\* args = sys.argv[2:]; __import__(sys.argv[1]).main(args)
run_branch(av, mods) == run_outcome(At(av, 1), From(av, 2), mods)

----------------------------------------------------------------------------
(* Bounds and input pools *)

MaxTextLen == 9     \* multiple_lines: longest text
MaxWidth   == 4     \* multiple_lines: largest line_length
MaxDocLen  == 5     \* extract_doc_title: longest string
MaxEntries == 2     \* entries of a directory listing
MaxNames   == 3     \* get_quick_doc: longest names list
MaxArgs    == 3     \* main: arguments after sys.argv[0]

TextAlphabet == {"a", SP}
DocAlphabet  == {"a", NL, "="}

File(item) == [item |-> item, isfile |-> TRUE]
Dir(item)  == [item |-> item, isfile |-> FALSE]

\* Listings of at most n entries with pairwise different names.
Listings(pool, n) ==
    {l \in Strings(pool, n) :
        \A i, j \in 1..Len(l) : i # j => l[i].item # l[j].item}

FOO_PY  == <<"f", "o", "o", ".", "p", "y">>
FOO_PYC == <<"f", "o", "o", ".", "p", "y", "c">>
FOO_TXT == <<"f", "o", "o", ".", "t", "x", "t">>
BAR     == <<"b", "a", "r">>
EnumItems == {FOO_PY, FOO_PYC, FOO_TXT, BAR, MAY_PY, MAY_BAT, PYCACHE, DOT_PY}
EnumPool  == {File(i) : i \in EnumItems} \cup {Dir(i) : i \in EnumItems}

\* Scripts of the help listing: names of three different lengths.
A_    == <<"a">>
BB    == <<"b", "b">>
CCC   == <<"c", "c", "c">>
A_PY  == <<"a", ".", "p", "y">>
BB_PY == <<"b", "b", ".", "p", "y">>
HelpUniverse == {A_, BB, CCC}
HelpPool     == {File(A_PY), File(BB_PY), Dir(CCC), File(MAY_PY)}

DOC_SHORT   == <<"T", NL, "=", "=", "=", "b">>
DOC_LONG    == Rep("x", 40) \o <<SP>> \o Rep("y", 40)
DOC_BIGWORD == Rep("x", 71) \o <<SP, "z">>
DOC_MULTI   == <<"t", NL, "u">>
DOC_NL      == <<NL>>
HelpKinds ==
    { Kind("ModuleNotFoundError", None, "absent"),
      Kind("SyntaxError", None, "absent"),
      Kind("ok", None, "returns"),
      Kind("ok", DOC_SHORT, "returns"),
      Kind("ok", DOC_LONG, "returns"),
      Kind("ok", DOC_BIGWORD, "returns"),
      Kind("ok", DOC_MULTI, "returns"),
      Kind("ok", DOC_NL, "returns") }

\* Scripts of the dispatcher runs.
ECHO    == <<"e", "c", "h", "o">>
ECHO_PY == <<"e", "c", "h", "o", ".", "p", "y">>
MainUniverse == {MANUAL, ECHO}
MainTokens   == {MANUAL, ECHO, <<>>}
MainDirs     == { <<>>, <<File(ECHO_PY)>>, <<Dir(MANUAL), File(ECHO_PY), File(MAY_PY)>> }
MainKinds ==
    { Kind("ModuleNotFoundError", None, "absent"),
      Kind("SyntaxError", None, "absent"),
      Kind("ok", None, "absent"),
      Kind("ok", None, "returns"),
      Kind("ok", DOC_SHORT, "returns"),
      Kind("ok", DOC_NL, "returns"),
      Kind("ok", None, "ModuleNotFoundError"),
      Kind("ok", None, "ValueError") }

----------------------------------------------------------------------------
(* Initial states: the call under study has its inputs, nothing has run *)

IdleWrap  == text = <<>> /\ line_length = 1 /\ lines = <<>>
IdleTitle == string = <<>> /\ doc_title = Ok(<<>>)
IdleEnum  == base_path = <<>> /\ script_names = <<>>
IdleMods  == modules = <<>>
IdleDoc   == names = <<>> /\ data = Ok(<<>>)
IdleHelp  == res = Ok(<<>>)
NotRun    == Outcome("none", <<>>, <<>>, <<>>, "none")
IdleMain  == argv = <<PROG>> /\ outcome = NotRun

InitWrap ==
    /\ pc = "start"
    /\ text \in Strings(TextAlphabet, MaxTextLen)
    /\ line_length \in 1..MaxWidth
    /\ lines = <<>>
    /\ IdleTitle /\ IdleEnum /\ IdleMods /\ IdleDoc /\ IdleHelp /\ IdleMain

InitTitle ==
    /\ pc = "start"
    /\ string \in Strings(DocAlphabet, MaxDocLen)
    /\ doc_title = Ok(<<>>)
    /\ IdleWrap /\ IdleEnum /\ IdleMods /\ IdleDoc /\ IdleHelp /\ IdleMain

InitEnum ==
    /\ pc = "start"
    /\ base_path \in Listings(EnumPool, MaxEntries)
    /\ script_names = <<>>
    /\ IdleWrap /\ IdleTitle /\ IdleMods /\ IdleDoc /\ IdleHelp /\ IdleMain

InitQuickDoc ==
    /\ pc = "start"
    /\ modules \in [HelpUniverse -> HelpKinds]
    /\ names \in Strings(HelpUniverse, MaxNames)
    /\ data = Ok(<<>>)
    /\ IdleWrap /\ IdleTitle /\ IdleEnum /\ IdleHelp /\ IdleMain

InitHelp ==
    /\ pc = "start"
    /\ modules \in [HelpUniverse -> HelpKinds]
    /\ base_path \in Listings(HelpPool, MaxEntries)
    /\ script_names = <<>>
    /\ res = Ok(<<>>)
    /\ IdleWrap /\ IdleTitle /\ IdleDoc /\ IdleMain

Init ==
    /\ pc = "start"
    /\ argv \in {<<PROG>> \o a : a \in Strings(MainTokens, MaxArgs)}
    /\ modules \in [MainUniverse -> MainKinds]
    /\ base_path \in MainDirs
    /\ outcome = NotRun
    /\ script_names = <<>>
    /\ IdleWrap /\ IdleTitle /\ IdleDoc /\ IdleHelp

----------------------------------------------------------------------------
(* Actions: one call each *)

CallMultipleLines ==
    /\ pc = "start"
    /\ lines' = multiple_lines(text, line_length)
    /\ pc' = "done"
    /\ UNCHANGED <<text, line_length, titleVars, enumVars, modules, docVars, res, mainVars>>

CallExtractDocTitle ==
    /\ pc = "start"
    /\ doc_title' = extract_doc_title(string)
    /\ pc' = "done"
    /\ UNCHANGED <<string, wrapVars, enumVars, modules, docVars, res, mainVars>>

CallGetImportNames ==
    /\ pc = "start"
    /\ script_names' = get_import_names(base_path)
    /\ pc' = "done"
    /\ UNCHANGED <<base_path, wrapVars, titleVars, modules, docVars, res, mainVars>>

CallGetQuickDoc ==
    /\ pc = "start"
    /\ data' = get_quick_doc(modules, names)
    /\ pc' = "done"
    /\ UNCHANGED <<names, wrapVars, titleVars, enumVars, modules, res, mainVars>>

CallAvailableScripts ==
    /\ pc = "start"
    /\ script_names' = get_import_names(base_path)
    /\ res' = available_scripts(base_path, modules)
    /\ pc' = "done"
    /\ UNCHANGED <<base_path, wrapVars, titleVars, modules, docVars, mainVars>>

MainHelp ==
    /\ pc = "start"
    /\ no_extra_keyword(argv)
    /\ outcome' = help_branch(base_path, modules)
    /\ pc' = "done"
    /\ UNCHANGED <<argv, wrapVars, titleVars, enumVars, modules, docVars, res>>

MainManual ==
    /\ pc = "start"
    /\ ~no_extra_keyword(argv)
    /\ asking_manual(argv)
    /\ outcome' = manual_branch(argv, modules)
    /\ pc' = "done"
    /\ UNCHANGED <<argv, wrapVars, titleVars, enumVars, modules, docVars, res>>

MainRun ==
    /\ pc = "start"
    /\ ~no_extra_keyword(argv)
    /\ ~asking_manual(argv)
    /\ outcome' = run_branch(argv, modules)
    /\ pc' = "done"
    /\ UNCHANGED <<argv, wrapVars, titleVars, enumVars, modules, docVars, res>>

Next == MainHelp \/ MainManual \/ MainRun

Spec         == Init /\ [][Next]_vars
SpecWrap     == InitWrap /\ [][CallMultipleLines]_vars
SpecTitle    == InitTitle /\ [][CallExtractDocTitle]_vars
SpecEnum     == InitEnum /\ [][CallGetImportNames]_vars
SpecQuickDoc == InitQuickDoc /\ [][CallGetQuickDoc]_vars
SpecHelp     == InitHelp /\ [][CallAvailableScripts]_vars

----------------------------------------------------------------------------
(* Claims about main, checked under Spec *)

Done == pc = "done"

IsPrefix(p, q) == Len(p) <= Len(q) /\ SubSeq(q, 1, Len(p)) = p

\* sys.argv is ["manual", <name>] after the program identifier
ManualArgv == Len(argv) = 3 /\ argv[2] = MANUAL
HelpArgv   == Len(argv) <= 1
RunArgv    == ~HelpArgv /\ ~ManualArgv

\* The name main() resolves in manual and in run mode
Requested == IF ManualArgv THEN argv[3] ELSE argv[2]

\* No name handed to __import__ was successfully loaded.
NoScriptLoaded ==
    \A i \in 1..Len(outcome.loaded) : import_(modules, outcome.loaded[i]).load # "ok"

HelpPrinted ==
    /\ Len(outcome.stdout) = 1
    /\ IsPrefix(HELP_HEAD, outcome.stdout[1])

C1_WitnessManualExtra ==
    Done /\ Len(argv) = 4 /\ argv[2] = MANUAL /\ outcome.branch = "run"
         /\ outcome.loaded = <<MANUAL>>

\* C2: in run mode a resolved script's main is called exactly once, with
\* sys.argv minus its first two entries, in order.
C2_MainReceivesRest ==
    (Done /\ RunArgv /\ import_(modules, argv[2]).load = "ok"
          /\ import_(modules, argv[2]).main # "absent")
        => outcome.calls = <<SubSeq(argv, 3, Len(argv))>>

\* main was called once with two forwarded arguments.
C2_Witness ==
    Done /\ outcome.branch = "run" /\ Len(argv) = 4 /\ Len(outcome.calls) = 1
         /\ outcome.calls[1] = <<argv[3], argv[4]>>

C4_MainFailuresPropagate ==
    (Done /\ RunArgv)
        => LET m == import_(modules, argv[2])
           IN  /\ (m.load = "ok" /\ m.main \notin {"absent", "returns"})
                     => outcome.raised = m.main /\ outcome.stdout = <<>>
               /\ outcome.stdout = <<ERROR_NOT_FOUND>> => m.load = "ModuleNotFoundError"

----------------------------------------------------------------------------
(* Claims about multiple_lines, checked under SpecWrap *)

HasSpace(s) == \E i \in 1..Len(s) : s[i] = SP

\* The non-empty elements of a sequence of strings, in order.
RECURSIVE NonEmpty(_)
NonEmpty(ws) ==
    IF Len(ws) = 0 THEN <<>>
    ELSE IF Len(ws[1]) = 0 THEN NonEmpty(Tail(ws))
    ELSE <<ws[1]>> \o NonEmpty(Tail(ws))

\* The words of every line, line after line.
RECURSIVE WordsOfLines(_)
WordsOfLines(ls) ==
    IF Len(ls) = 0 THEN <<>>
    ELSE split(ls[1], <<SP>>) \o WordsOfLines(Tail(ls))

\* C5 as stated: for a non-empty text, the returned lines joined with single
\* spaces are the text again.
C5_JoinReconstructs ==
    (Done /\ Len(text) > 0) => join(<<SP>>, lines) = text

\* C10: a line longer than line_length is a single word; a word at least
\* line_length long is a line of its own; no word is split, so the non-empty
\* words of the lines are those of the text, in order; the result is never
\* empty, and for the empty text it is the one empty string.
C10_LineWidth ==
    Done =>
        /\ Len(lines) >= 1
        /\ text = <<>> => lines = << <<>> >>
        /\ \A i \in 1..Len(lines) :
              /\ Len(lines[i]) > line_length => ~HasSpace(lines[i])
              /\ (\E w \in {split(lines[i], <<SP>>)[k] : k \in 1..Len(split(lines[i], <<SP>>))} :
                     Len(w) >= line_length) => ~HasSpace(lines[i])
        /\ \A k \in 1..Len(split(text, <<SP>>)) :
              Len(split(text, <<SP>>)[k]) >= line_length
                  => \E i \in 1..Len(lines) : lines[i] = split(text, <<SP>>)[k]
        /\ NonEmpty(WordsOfLines(lines)) = NonEmpty(split(text, <<SP>>))

\* A text of several words was wrapped and one line, a single long word,
\* exceeds the width.
C10_Witness ==
    /\ Done /\ Len(lines) >= 2
    /\ \E i \in 1..Len(lines) : Len(lines[i]) > line_length
    /\ \E i \in 1..Len(lines) : HasSpace(lines[i])

----------------------------------------------------------------------------
(* Claim about extract_doc_title, checked under SpecTitle *)

\* s with one leading newline removed if present, then one trailing newline
\* removed if present.
StripOneEach(s) ==
    LET a == IF Len(s) > 0 /\ s[1] = NL THEN SubSeq(s, 2, Len(s)) ELSE s
    IN  IF Len(a) > 0 /\ a[Len(a)] = NL THEN SubSeq(a, 1, Len(a) - 1) ELSE a

\* The portion of s before the first "===" (all of s when there is none).
BeforeDelimiter(s) ==
    IF \E i \in 1..Len(s) : OccursAt(<<"=", "=", "=">>, s, i)
    THEN LET i == CHOOSE j \in 1..Len(s) :
                     /\ OccursAt(<<"=", "=", "=">>, s, j)
                     /\ \A k \in 1..(j - 1) : ~OccursAt(<<"=", "=", "=">>, s, k)
         IN  SubSeq(s, 1, i - 1)
    ELSE s

\* C6 as stated: extract_doc_title raises nothing on any string and returns
\* the portion before the first "===" less one leading and one trailing
\* newline.
C6_TitleTotal ==
    Done => /\ doc_title.exc = "none"
            /\ doc_title.val = StripOneEach(BeforeDelimiter(string))

----------------------------------------------------------------------------
(* Claim about get_import_names, checked under SpecEnum *)

EndsWithDotPy(item) ==
    Len(item) > Len(DOT_PY) /\ OccursAt(DOT_PY, item, Len(item) - Len(DOT_PY) + 1)

\* The names C7 describes for the listing l[k..].
RECURSIVE ClaimedNames(_, _)
ClaimedNames(l, k) ==
    IF k > Len(l) THEN <<>>
    ELSE LET item == l[k].item
             rest == ClaimedNames(l, k + 1)
         IN  IF item \in {MAY_BAT, MAY_PY, PYCACHE} THEN rest
             ELSE IF ~l[k].isfile THEN <<item>> \o rest
             ELSE IF EndsWithDotPy(item)
                  THEN <<SubSeq(item, 1, Len(item) - Len(DOT_PY))>> \o rest
             ELSE rest

\* C7 as stated: in listing order, the stem of every regular file named
\* <stem>.py and the full name of every entry that is not a regular file;
\* nothing for any other regular file; the three reserved names excluded.
C7_ImportNames ==
    Done => script_names = ClaimedNames(base_path, 1)

----------------------------------------------------------------------------
(* Claim about get_quick_doc, checked under SpecQuickDoc *)

\* One descriptor per name that resolves, not-found names skipped.
RECURSIVE ClaimedDescriptors(_, _, _)
ClaimedDescriptors(mods, ns, k) ==
    IF k > Len(ns) THEN <<>>
    ELSE LET m    == import_(mods, ns[k])
             rest == ClaimedDescriptors(mods, ns, k + 1)
         IN  IF m.load = "ok"
             THEN <<[name |-> ns[k],
                     title |-> extract_doc_title(doc_or_empty(m.doc)).val]>> \o rest
             ELSE rest

\* Some name of ns fails to load with something else than not-found.
OtherLoadFailure(mods, ns) ==
    \E k \in 1..Len(ns) : import_(mods, ns[k]).load \notin {"ok", "ModuleNotFoundError"}

\* C8 as stated: unless a load fails with something else than not-found
\* (which aborts the listing), get_quick_doc returns one descriptor per name
\* that resolves, in input order, not-found names skipped.
C8_QuickDoc ==
    Done => IF OtherLoadFailure(modules, names)
            THEN data.exc # "none"
            ELSE /\ data.exc = "none"
                 /\ data.val = ClaimedDescriptors(modules, names, 1)

----------------------------------------------------------------------------
(* Claim about available_scripts, checked under SpecHelp *)

\* The rows C9 describes: for each descriptor, one row per wrapped segment of
\* its title, the first with the name padded to width, the others blank.
RECURSIVE ClaimedRows(_, _, _)
ClaimedRows(descs, k, width) ==
    IF k > Len(descs) THEN <<>>
    ELSE LET segs == multiple_lines(descs[k].title, INLINE_DOC_CHARS)
             name == descs[k].name
         IN  [i \in 1..Len(segs) |->
                 [field |-> IF i = 1 THEN name \o Rep(SP, width - Len(name))
                            ELSE Rep(SP, width),
                  seg |-> segs[i]]]
             \o ClaimedRows(descs, k + 1, width)

\* The newline-terminated lines of a string that is empty or ends in a newline.
TerminatedLines(s) ==
    LET pieces == split(s, <<NL>>)
    IN  SubSeq(pieces, 1, Len(pieces) - 1)

\* C9 as stated: the listing holds exactly one newline-terminated line per
\* wrapped title segment, in descriptor order, each a blank, a name field
\* exactly maxLen wide, a tab and the segment; maxLen is the longest of all
\* enumerated names.
C9_ListingLines ==
    (Done /\ res.exc = "none") =>
        LET maxLen == longest_text(script_names)
            rows   == ClaimedRows(get_quick_doc(modules, script_names).val, 1, maxLen)
            out    == TerminatedLines(res.val)
        IN  /\ res.val = <<>> \/ res.val[Len(res.val)] = NL
            /\ Len(out) = Len(rows)
            /\ \A i \in 1..Len(rows) :
                  /\ Len(rows[i].field) = maxLen
                  /\ out[i] = <<SP>> \o rows[i].field \o <<TAB>> \o rows[i].seg

====
